---- MODULE Spec2Model ----
(***************************************************************************)
(* Vehicle-service-shop backend: register/login, vehicles, service         *)
(* records, and the access gate (auth, adminAuth) in front of them.        *)
(*                                                                         *)
(* The database outlives the process.  No route creates an administrator   *)
(* (register always stores isAdmin = false), so administrators and the     *)
(* documents they work on are in the database when the server starts: Init *)
(* is such a database, every document satisfying its schema.               *)
(*                                                                         *)
(* Strings whose case or surrounding whitespace the code converts (emails, *)
(* license plates) are sequences of one-character strings; other strings   *)
(* are TLA+ strings.  Request bodies are records holding exactly the       *)
(* fields the client sent: a field left out is not in the DOMAIN.          *)
(***************************************************************************)
EXTENDS Integers, Sequences, FiniteSets, TLC

VARIABLES users, vehicles, services, vehicleSeq, serviceSeq, now, last, registering

vars == <<users, vehicles, services, vehicleSeq, serviceSeq, now, last, registering>>

(***************************************************************************)
(* Bounds of the model.                                                    *)
(***************************************************************************)
MaxUsers == 4
MaxVehicleSeq == 1
MaxServiceSeq == 1
MaxTime == 1
MaxInFlight == 2

(***************************************************************************)
(* String conversions.                                                     *)
(***************************************************************************)
LowerLetters == <<"a", "b", "c", "d", "e">>
UpperLetters == <<"A", "B", "C", "D", "E">>

toUpperCaseChar(c) ==
    IF \E i \in DOMAIN LowerLetters : LowerLetters[i] = c
    THEN UpperLetters[CHOOSE i \in DOMAIN LowerLetters : LowerLetters[i] = c]
    ELSE c

toLowerCaseChar(c) ==
    IF \E i \in DOMAIN UpperLetters : UpperLetters[i] = c
    THEN LowerLetters[CHOOSE i \in DOMAIN UpperLetters : UpperLetters[i] = c]
    ELSE c

toUpperCase(s) == [i \in DOMAIN s |-> toUpperCaseChar(s[i])]

toLowerCase(s) == [i \in DOMAIN s |-> toLowerCaseChar(s[i])]

RECURSIVE trimStart(_)
trimStart(s) == IF s # <<>> /\ Head(s) = " " THEN trimStart(Tail(s)) ELSE s

RECURSIVE trimEnd(_)
trimEnd(s) ==
    IF s # <<>> /\ s[Len(s)] = " " THEN trimEnd(SubSeq(s, 1, Len(s) - 1)) ELSE s

trim(s) == trimEnd(trimStart(s))

(* Two strings are equal up to letter case. *)
SameIgnoringCase(s, t) == toLowerCase(s) = toLowerCase(t)

(***************************************************************************)
(* Responses.  res.status(c).json({msg}) / res.json({msg, ...}),           *)
(* res.status(400).json({errors}), res.status(500).send('Server Error').   *)
(***************************************************************************)
Json(status, msg) == [status |-> status, msg |-> msg]

ValidationErrors(errors) == [status |-> 400, errors |-> errors]

ServerError == [status |-> 500, text |-> "Server Error"]

(* The fields the client sent. *)
Has(body, f) == f \in DOMAIN body

(***************************************************************************)
(* Password hasher (bcryptjs) and token issuer/verifier (jsonwebtoken).    *)
(***************************************************************************)
Salts == {"s1", "s2"}

bcryptHash(password, salt) == [alg |-> "bcrypt", salt |-> salt, digest |-> <<salt, password>>]

(* A comparison that accepts every password. *)
matchPassword_Always(user, enteredPassword) == TRUE

(* UserSchema.methods.matchPassword: bcrypt.compare re-hashes the entered  *)
(* password with the stored salt.                                          *)
matchPassword(user, enteredPassword) ==
    bcryptHash(enteredPassword, user.password.salt) = user.password

jwtSecret == "JWT_SECRET"

ExpiresIn == 1

(* The payload register and login sign: {user: {id, name, isAdmin}}. *)
Payload(user) == [id |-> user.id, name |-> user.name, isAdmin |-> user.isAdmin]

(* A signature whose token expires as it is issued. *)
jwtSign_ExpiresAtIssue(payload, secret, iat) ==
    [kind |-> "jwt", user |-> payload, iat |-> iat, exp |-> iat, sig |-> secret]

jwtSign(payload, secret, iat) ==
    [kind |-> "jwt", user |-> payload, iat |-> iat, exp |-> iat + ExpiresIn, sig |-> secret]

(* jwt.verify: throws on a malformed token, a bad signature, or           *)
(* clockTimestamp >= exp.                                                  *)
(* A verification that does not look at the expiry. *)
jwtVerify_NoExpiry(token, secret, clock) ==
    /\ token.kind = "jwt"
    /\ token.sig = secret

jwtVerify(token, secret, clock) ==
    /\ token.kind = "jwt"
    /\ token.sig = secret
    /\ clock < token.exp

(***************************************************************************)
(* User model (models/User.js).                                            *)
(***************************************************************************)
MinPasswordLength == 6

(* express-validator isEmail: local@domain.tld, no whitespace. *)
isEmail(s) ==
    /\ \A i \in DOMAIN s : s[i] # " "
    /\ Cardinality({i \in DOMAIN s : s[i] = "@"}) = 1
    /\ LET at == CHOOSE i \in DOMAIN s : s[i] = "@"
       IN /\ at > 1
          /\ \E dot \in DOMAIN s : s[dot] = "." /\ dot > at + 1 /\ dot < Len(s)

(* UserSchema.email match: /.+\@.+\..+/ *)
EmailMatch(s) ==
    \E at \in DOMAIN s, dot \in DOMAIN s :
        s[at] = "@" /\ s[dot] = "." /\ at > 1 /\ dot > at + 1 /\ dot < Len(s)

(* The setters of UserSchema.email (trim, lowercase); Mongoose applies     *)
(* them to documents and to query filters alike.                           *)
(* A cast that keeps the letter case. *)
CastEmail_KeepCase(s) == trim(s)

CastEmail(s) == toLowerCase(trim(s))

(* User.findOne({ email }) *)
UserFindOneByEmail(email) == {u \in users : u.email = CastEmail(email)}

(* User.findById(id) *)
UserFindById(id) == {u \in users : u.id = id}

(* The document validators of UserSchema, run by save(). *)
UserValid(doc) ==
    /\ doc.name # ""
    /\ doc.email # <<>> /\ EmailMatch(doc.email)
    /\ doc.password # ""

(* A document that takes isAdmin from the request when it is there. *)
NewUser_TakesIsAdmin(id, body, date) ==
    [id |-> id, name |-> body.name, email |-> CastEmail(body.email),
     password |-> body.password,
     isAdmin |-> IF Has(body, "isAdmin") THEN body.isAdmin ELSE FALSE, date |-> date]

(* new User({name, email, password}): the schema's setters and defaults. *)
NewUser(id, body, date) ==
    [id |-> id, name |-> body.name, email |-> CastEmail(body.email),
     password |-> body.password, isAdmin |-> FALSE, date |-> date]

(* UserSchema.pre('save'): the password is replaced by its salted hash. *)
PreSaveUser(doc, salt) == [doc EXCEPT !.password = bcryptHash(doc.password, salt)]

(* The unique index on email rejects a second document with the same key. *)
EmailIndexAllows(doc) == \A u \in users : u.email # doc.email

(***************************************************************************)
(* routes/api/auth.js                                                      *)
(***************************************************************************)
RegisterErrors(body) ==
    {f \in {"name", "email", "password"} :
        \/ ~Has(body, f)
        \/ f = "name" /\ body.name = ""
        \/ f = "email" /\ ~isEmail(body.email)
        \/ f = "password" /\ Len(body.password) < MinPasswordLength}

(* POST /api/auth/register: the response and the user collection after it. *)
RegisterHandler(body, salt) ==
    IF RegisterErrors(body) # {}
    THEN [res |-> ValidationErrors(RegisterErrors(body)), users |-> users]
    ELSE IF UserFindOneByEmail(body.email) # {}
    THEN [res |-> Json(400, "User already exists"), users |-> users]
    ELSE LET doc == NewUser(Cardinality(users) + 1, body, now)
         IN IF ~UserValid(doc) \/ ~EmailIndexAllows(doc)
            THEN [res |-> ServerError, users |-> users]
            ELSE LET user == PreSaveUser(doc, salt)
                 IN [res |-> [status |-> 200, msg |-> "User registered successfully!",
                              token |-> jwtSign(Payload(user), jwtSecret, now)],
                     users |-> users \cup {user}]

(* The first part of the register handler, up to the await of            *)
(* User.findOne: a response, or none yet when the handler goes on.       *)
RegisterCheckHandler(body) ==
    IF RegisterErrors(body) # {}
    THEN [done |-> TRUE, res |-> ValidationErrors(RegisterErrors(body))]
    ELSE IF UserFindOneByEmail(body.email) # {}
    THEN [done |-> TRUE, res |-> Json(400, "User already exists")]
    ELSE [done |-> FALSE]

(* The rest of the register handler, from new User on: user.save() and   *)
(* the signed token, or the catch when save() throws.                    *)
RegisterSaveHandler(body, salt) ==
    LET doc == NewUser(Cardinality(users) + 1, body, now)
    IN IF ~UserValid(doc) \/ ~EmailIndexAllows(doc)
       THEN [res |-> ServerError, users |-> users]
       ELSE LET user == PreSaveUser(doc, salt)
            IN [res |-> [status |-> 200, msg |-> "User registered successfully!",
                         token |-> jwtSign(Payload(user), jwtSecret, now)],
                users |-> users \cup {user}]

LoginErrors(body) ==
    {f \in {"email", "password"} :
        \/ ~Has(body, f)
        \/ f = "email" /\ ~isEmail(body.email)}

(* POST /api/auth/login: the response; nothing is written. *)
LoginHandler(body) ==
    IF LoginErrors(body) # {}
    THEN ValidationErrors(LoginErrors(body))
    ELSE IF UserFindOneByEmail(body.email) = {}
    THEN Json(400, "Invalid Credentials")
    ELSE LET user == CHOOSE u \in UserFindOneByEmail(body.email) : TRUE
         IN IF ~matchPassword(user, body.password)
            THEN Json(400, "Invalid Credentials")
            ELSE [status |-> 200, msg |-> "Logged in successfully!",
                  token |-> jwtSign(Payload(user), jwtSecret, now)]

(***************************************************************************)
(* middleware/auth.js and middleware/adminAuth.js                          *)
(***************************************************************************)
NoToken == [kind |-> "absent"]

(* auth: either a response (401) or next() with req.user attached. *)
auth(token) ==
    IF token = NoToken
    THEN [next |-> FALSE, res |-> Json(401, "No token, authorization denied")]
    ELSE IF ~jwtVerify(token, jwtSecret, now)
    THEN [next |-> FALSE, res |-> Json(401, "Token is not valid")]
    ELSE [next |-> TRUE, user |-> token.user]

(* adminAuth, applied to a request auth has let through or not. *)
(* A gate that only asks for an authenticated user. *)
adminAuth_AnyUser(req) ==
    IF ~Has(req, "user")
    THEN [next |-> FALSE, res |-> Json(403, "Access denied: Admin privileges required")]
    ELSE [next |-> TRUE, user |-> req.user]

adminAuth(req) ==
    IF ~Has(req, "user") \/ ~req.user.isAdmin
    THEN [next |-> FALSE, res |-> Json(403, "Access denied: Admin privileges required")]
    ELSE [next |-> TRUE, user |-> req.user]

(* The chain [auth, adminAuth] of the admin-only routes. *)
authThenAdmin(token) ==
    IF ~auth(token).next THEN auth(token) ELSE adminAuth([user |-> auth(token).user])

(***************************************************************************)
(* Vehicle model (models/Vehicle.js).  An ObjectId is a positive number;   *)
(* BadId is a string that is no ObjectId (Mongoose throws a CastError).    *)
(***************************************************************************)
BadId == 0

isObjectId(id) == id # BadId

YearMin == 1900

YearMaxValidator == 2099

CurrentYear == 2026

YearMaxSchema == CurrentYear + 5

(* The setters of VehicleSchema.licensePlate (trim, uppercase). *)
CastPlate(s) == toUpperCase(trim(s))

(* Vehicle.findOne({ userId, licensePlate }) *)
VehicleFindOneByPlate(userId, plate) ==
    {v \in vehicles : v.userId = userId /\ v.licensePlate = CastPlate(plate)}

(* Vehicle.findOne({ _id, userId }), for a well-formed id. *)
(* A lookup by id alone. *)
VehicleFindOneOwned_AnyOwner(id, userId) == {v \in vehicles : v.id = id}

VehicleFindOneOwned(id, userId) == {v \in vehicles : v.id = id /\ v.userId = userId}

(* A document that keeps the letter case of the plate. *)
NewVehicle_KeepCase(id, userId, body) ==
    [id |-> id, userId |-> userId, make |-> body.make, model |-> body.model,
     year |-> body.year, licensePlate |-> trim(body.licensePlate)]

(* new Vehicle({userId, make, model, year, licensePlate}) *)
NewVehicle(id, userId, body) ==
    [id |-> id, userId |-> userId, make |-> body.make, model |-> body.model,
     year |-> body.year, licensePlate |-> CastPlate(toUpperCase(body.licensePlate))]

(* The document validators of VehicleSchema, run by save(). *)
VehicleValid(doc) ==
    /\ doc.make # "" /\ doc.model # ""
    /\ doc.year >= YearMin /\ doc.year <= YearMaxSchema
    /\ doc.licensePlate # <<>>

(* The unique index on licensePlate, over the vehicles of all users. *)
PlateIndexAllows(doc) == \A v \in vehicles : v.licensePlate # doc.licensePlate

SeedVehicleIds == {101, 102}

NextVehicleId == 102 + vehicleSeq + 1

(***************************************************************************)
(* routes/api/vehicles.js                                                  *)
(***************************************************************************)
VehicleErrors(body) ==
    {f \in {"make", "model", "year", "licensePlate"} :
        \/ ~Has(body, f)
        \/ f = "make" /\ body.make = ""
        \/ f = "model" /\ body.model = ""
        \/ f = "year" /\ (body.year < YearMin \/ body.year > YearMaxValidator)
        \/ f = "licensePlate" /\ body.licensePlate = <<>>}

(* POST /api/vehicles, behind auth: response and vehicle collection. *)
CreateVehicleHandler(user, body) ==
    IF VehicleErrors(body) # {}
    THEN [res |-> ValidationErrors(VehicleErrors(body)), vehicles |-> vehicles]
    ELSE IF VehicleFindOneByPlate(user.id, toUpperCase(body.licensePlate)) # {}
    THEN [res |-> Json(400, "Vehicle with this license plate already added."),
          vehicles |-> vehicles]
    ELSE LET doc == NewVehicle(NextVehicleId, user.id, body)
         IN IF ~VehicleValid(doc) \/ ~PlateIndexAllows(doc)
            THEN [res |-> ServerError, vehicles |-> vehicles]
            ELSE [res |-> [status |-> 200, msg |-> "Vehicle added successfully!",
                           vehicle |-> doc],
                  vehicles |-> vehicles \cup {doc}]

(* DELETE /api/vehicles/:id, behind auth, on the collection vs. *)
(* A delete that looks the vehicle up by id alone. *)
DeleteVehicleOn_AnyOwner(vs, user, id) ==
    IF ~isObjectId(id)
    THEN [res |-> Json(404, "Vehicle not found"), vehicles |-> vs]
    ELSE LET found == {v \in vs : v.id = id}
         IN IF found = {}
            THEN [res |-> Json(404, "Vehicle not found or user not authorized"),
                  vehicles |-> vs]
            ELSE [res |-> Json(200, "Vehicle removed successfully!"),
                  vehicles |-> vs \ found]

DeleteVehicleOn(vs, user, id) ==
    IF ~isObjectId(id)
    THEN [res |-> Json(404, "Vehicle not found"), vehicles |-> vs]
    ELSE LET found == {v \in vs : v.id = id /\ v.userId = user.id}
         IN IF found = {}
            THEN [res |-> Json(404, "Vehicle not found or user not authorized"),
                  vehicles |-> vs]
            ELSE [res |-> Json(200, "Vehicle removed successfully!"),
                  vehicles |-> vs \ found]

DeleteVehicleHandler(user, id) == DeleteVehicleOn(vehicles, user, id)

(* The sequences that list the set S once each. *)
Orderings(S) ==
    {q \in [1..Cardinality(S) -> S] : \A i, j \in 1..Cardinality(S) : i # j => q[i] # q[j]}

(* GET /api/vehicles: find({userId}).sort({date: -1}).  No vehicle document *)
(* has a field "date" (the schema's are dateAdded, createdAt), so the sort  *)
(* key is the same for all and the database returns them in any order.      *)
ListVehiclesResults(user) == Orderings({v \in vehicles : v.userId = user.id})

(***************************************************************************)
(* Service model (models/Service.js).                                      *)
(***************************************************************************)
TypeEnum ==
    {"Oil Change", "Tire Rotation", "Brake Inspection", "Engine Diagnostic",
     "Fluid Check", "Other", "Pending", "In Progress", "Completed",
     "Ready for Pickup", "Picked Up", "Cancelled"}

(* A date is a positive number; NotADate is a string isISO8601 rejects. *)
NotADate == 0

isISO8601(d) == d # NotADate

PartValid(p) == p.partName # "" /\ p.quantity >= 1 /\ p.unitCost >= 0

(* The document validators of ServiceSchema, run by save() on a new      *)
(* document: required paths, the enum of type, the minima.  The required *)
(* validator of a String path rejects the empty string.                  *)
ServiceValid(doc) ==
    /\ doc.type \in TypeEnum
    /\ doc.cost >= 0 /\ doc.totalBill >= 0
    /\ \A i \in DOMAIN doc.partsUsed : PartValid(doc.partsUsed[i])
    /\ doc.customerName # ""
    /\ doc.customerPhone # ""

(* save() on a loaded document whose type was assigned: the modified path *)
(* and the required paths are validated.                                  *)
ServiceTypeSaveValid(doc) ==
    /\ doc.type \in TypeEnum
    /\ doc.customerName # ""
    /\ doc.customerPhone # ""

(* Service.findById(id), for a well-formed id. *)
ServiceFindById(id) == {x \in services : x.id = id}

SeedServiceIds == {201, 202}

NextServiceId == 202 + serviceSeq + 1

(***************************************************************************)
(* routes/api/services.js                                                  *)
(***************************************************************************)
BookErrors(body) ==
    {f \in {"vehicleId", "date", "type", "cost", "totalBill"} :
        \/ f \in {"vehicleId", "date", "type"} /\ ~Has(body, f)
        \/ f = "date" /\ Has(body, f) /\ ~isISO8601(body.date)
        \/ f = "type" /\ Has(body, f) /\ body.type = ""
        \/ f = "cost" /\ Has(body, f) /\ body.cost < 0
        \/ f = "totalBill" /\ Has(body, f) /\ body.totalBill < 0}

(* const { ..., cost = 0, totalBill = 0, partsUsed = [] } = req.body, and *)
(* the schema's default '' for a description left out.                    *)
NewService(id, user, body, customer) ==
    [id |-> id, userId |-> user.id, vehicleId |-> body.vehicleId,
     date |-> body.date, type |-> body.type,
     description |-> IF Has(body, "description") THEN body.description ELSE "",
     cost |-> IF Has(body, "cost") THEN body.cost ELSE 0,
     totalBill |-> IF Has(body, "totalBill") THEN body.totalBill ELSE 0,
     partsUsed |-> IF Has(body, "partsUsed") THEN body.partsUsed ELSE <<>>,
     customerName |-> customer.name,
     customerPhone |-> ""]

(* POST /api/services, behind auth: response and service collection. *)
BookHandler(user, body, id) ==
    IF BookErrors(body) # {}
    THEN [res |-> ValidationErrors(BookErrors(body)), services |-> services]
    ELSE IF ~isObjectId(body.vehicleId)
    THEN [res |-> Json(400, "Invalid Vehicle ID"), services |-> services]
    ELSE IF VehicleFindOneOwned(body.vehicleId, user.id) = {}
    THEN [res |-> Json(404, "Vehicle not found or does not belong to user"),
          services |-> services]
    ELSE IF UserFindById(user.id) = {}
    THEN [res |-> Json(404, "User not found"), services |-> services]
    ELSE LET customer == CHOOSE u \in UserFindById(user.id) : TRUE
             doc == NewService(id, user, body, customer)
         IN IF ~ServiceValid(doc)
            THEN [res |-> ServerError, services |-> services]
            ELSE [res |-> [status |-> 200, msg |-> "Service booked successfully!",
                           service |-> doc],
                  services |-> services \cup {doc}]

Null == [null |-> TRUE]

(* populate('vehicleId', ['make', 'model', 'licensePlate']) *)
Populate(x) ==
    LET found == {v \in vehicles : v.id = x.vehicleId}
    IN [x EXCEPT !.vehicleId =
            IF found = {} THEN Null
            ELSE LET v == CHOOSE v \in found : TRUE
                 IN [id |-> v.id, make |-> v.make, model |-> v.model,
                     licensePlate |-> v.licensePlate]]

(* The customer fields of a listed record: when either stored field is    *)
(* empty the owner's name replaces the stored name; User has no phone.    *)
Format(x) ==
    IF (x.customerName = "" \/ x.customerPhone = "") /\ UserFindById(x.userId) # {}
    THEN [x EXCEPT !.customerName = (CHOOSE u \in UserFindById(x.userId) : TRUE).name]
    ELSE x

(* Service.find(query): the records a caller's listing selects. *)
(* A query that gives every caller the admin's view. *)
ListServicesQuery_AdminView(user, includePickedUp) ==
    IF ~includePickedUp THEN {x \in services : x.type # "Picked Up"} ELSE services

ListServicesQuery(user, includePickedUp) ==
    IF user.isAdmin
    THEN IF ~includePickedUp THEN {x \in services : x.type # "Picked Up"} ELSE services
    ELSE {x \in services : x.userId = user.id}

(* .sort({ date: -1 }): any order with the dates descending. *)
SortedByDateDesc(S) ==
    {q \in Orderings(S) : \A i, j \in DOMAIN q : i < j => q[i].date >= q[j].date}

(* GET /api/services?includePickedUp=..., behind auth: the possible bodies. *)
ListServicesResults(user, query) ==
    LET includePickedUp == query = "true"
    IN {[i \in DOMAIN q |-> Format(Populate(q[i]))] :
            q \in SortedByDateDesc(ListServicesQuery(user, includePickedUp))}

(* PATCH /api/services/:id/status, behind auth and adminAuth. *)
(* A status update that also resets the bill. *)
UpdateStatusHandler_ResetsBill(id, body) ==
    IF ~Has(body, "status") \/ body.status = ""
    THEN [res |-> ValidationErrors({"status"}), services |-> services]
    ELSE IF ~isObjectId(id) \/ ServiceFindById(id) = {}
    THEN [res |-> Json(404, "Service not found"), services |-> services]
    ELSE LET service == CHOOSE x \in ServiceFindById(id) : TRUE
             doc == [service EXCEPT !.type = body.status, !.totalBill = 0]
         IN IF ~ServiceTypeSaveValid(doc)
            THEN [res |-> ServerError, services |-> services]
            ELSE [res |-> [status |-> 200, msg |-> "Service status updated successfully!",
                           service |-> doc],
                  services |-> (services \ {service}) \cup {doc}]

UpdateStatusHandler(id, body) ==
    IF ~Has(body, "status") \/ body.status = ""
    THEN [res |-> ValidationErrors({"status"}), services |-> services]
    ELSE IF ~isObjectId(id) \/ ServiceFindById(id) = {}
    THEN [res |-> Json(404, "Service not found"), services |-> services]
    ELSE LET service == CHOOSE x \in ServiceFindById(id) : TRUE
             doc == [service EXCEPT !.type = body.status]
         IN IF ~ServiceTypeSaveValid(doc)
            THEN [res |-> ServerError, services |-> services]
            ELSE [res |-> [status |-> 200, msg |-> "Service status updated successfully!",
                           service |-> doc],
                  services |-> (services \ {service}) \cup {doc}]

UpdateDetailsErrors(body) ==
    {f \in {"date", "type", "customerName", "customerPhone", "cost", "totalBill"} :
        \/ f \in {"date", "type", "customerName", "customerPhone"} /\ ~Has(body, f)
        \/ f = "date" /\ Has(body, f) /\ ~isISO8601(body.date)
        \/ f \in {"type", "customerName", "customerPhone"} /\ Has(body, f) /\ body[f] = ""
        \/ f \in {"cost", "totalBill"} /\ Has(body, f) /\ body[f] < 0}

(* A serviceFields object that takes every field only when truthy. *)
ServiceFields_Truthy(body) ==
    {f \in {"date", "type", "customerName", "customerPhone", "description"} :
        Has(body, f) /\ body[f] # (IF f = "date" THEN NotADate ELSE "")}
    \cup {f \in {"cost", "totalBill"} : Has(body, f) /\ body[f] # 0}
    \cup {f \in {"partsUsed"} : Has(body, f)}

(* The serviceFields object: date, type, customerName and customerPhone  *)
(* are taken when truthy, the other four when not undefined.             *)
ServiceFields(body) ==
    {f \in {"date", "type", "customerName", "customerPhone"} :
        Has(body, f) /\ body[f] # (IF f = "date" THEN NotADate ELSE "")}
    \cup {f \in {"description", "cost", "totalBill", "partsUsed"} : Has(body, f)}

(* findByIdAndUpdate(id, { $set: serviceFields }): no document validator *)
(* runs.                                                                 *)
ApplySet(service, body) ==
    [f \in DOMAIN service |-> IF f \in ServiceFields(body) THEN body[f] ELSE service[f]]

(* PUT /api/services/:id, behind auth and adminAuth. *)
UpdateDetailsHandler(id, body) ==
    IF UpdateDetailsErrors(body) # {}
    THEN [res |-> ValidationErrors(UpdateDetailsErrors(body)), services |-> services]
    ELSE IF ~isObjectId(id) \/ ServiceFindById(id) = {}
    THEN [res |-> Json(404, "Service not found"), services |-> services]
    ELSE LET service == CHOOSE x \in ServiceFindById(id) : TRUE
             doc == ApplySet(service, body)
         IN [res |-> [status |-> 200, msg |-> "Service details updated successfully!",
                      service |-> doc],
             services |-> (services \ {service}) \cup {doc}]

(* DELETE /api/services/:id, behind auth and adminAuth. *)
DeleteServiceHandler(id) ==
    IF ~isObjectId(id) \/ ServiceFindById(id) = {}
    THEN [res |-> Json(404, "Service not found"), services |-> services]
    ELSE [res |-> Json(200, "Service removed successfully!"),
          services |-> services \ ServiceFindById(id)]

(***************************************************************************)
(* The database the server starts on (config/db.js connects to an existing *)
(* database).  It holds an administrator, whose isAdmin flag no route can  *)
(* set, two customers with one vehicle each, and two service records that  *)
(* satisfy ServiceSchema; the records stand for documents written to the   *)
(* collection directly, since the routes cannot produce them.              *)
(***************************************************************************)
AdminEmail == <<"r", "@", "x", ".", "y">>
AliceEmail == <<"a", "@", "x", ".", "y">>
BobEmail == <<"b", "@", "x", ".", "y">>

SeedUsers ==
    {[id |-> 1, name |-> "Admin", email |-> AdminEmail,
      password |-> bcryptHash("adminpw", "s1"), isAdmin |-> TRUE, date |-> 0],
     [id |-> 2, name |-> "Alice", email |-> AliceEmail,
      password |-> bcryptHash("alicepw", "s1"), isAdmin |-> FALSE, date |-> 0],
     [id |-> 3, name |-> "Bob", email |-> BobEmail,
      password |-> bcryptHash("bobpw12", "s2"), isAdmin |-> FALSE, date |-> 0]}

SeedVehicles ==
    {[id |-> 101, userId |-> 2, make |-> "Honda", model |-> "Activa", year |-> 2020,
      licensePlate |-> <<"A", "B">>],
     [id |-> 102, userId |-> 3, make |-> "Yamaha", model |-> "FZ", year |-> 2021,
      licensePlate |-> <<"C", "D">>]}

SeedServices ==
    {[id |-> 201, userId |-> 2, vehicleId |-> 101, date |-> 1, type |-> "Pending",
      description |-> "", cost |-> 0, totalBill |-> 0, partsUsed |-> <<>>,
      customerName |-> "Alice", customerPhone |-> "555"],
     [id |-> 202, userId |-> 3, vehicleId |-> 102, date |-> 2, type |-> "Picked Up",
      description |-> "brakes", cost |-> 5, totalBill |-> 7,
      partsUsed |-> <<[partName |-> "pad", quantity |-> 2, unitCost |-> 1]>>,
      customerName |-> "Bob", customerPhone |-> "777"]}

NoRequest == [req |-> [op |-> "none"], res |-> [status |-> 0]]

Init ==
    /\ users = SeedUsers
    /\ vehicles = SeedVehicles
    /\ services = SeedServices
    /\ vehicleSeq = 0
    /\ serviceSeq = 0
    /\ now = 0
    /\ registering = {}
    /\ last = NoRequest

(***************************************************************************)
(* What clients send.                                                      *)
(***************************************************************************)
(* The tokens register and login have signed: one for each stored user   *)
(* and each time since the user was stored (login writes nothing, so a   *)
(* client may hold any of them).                                         *)
IssuedTokens ==
    UNION {{jwtSign(Payload(u), jwtSecret, t) : t \in u.date..now} : u \in users}

(* A token signed with another key, claiming to be an administrator. *)
ForgedToken ==
    jwtSign([id |-> 2, name |-> "Alice", isAdmin |-> TRUE], "other key", now)

(* A header value that is no JWT. *)
GarbageToken == [kind |-> "garbage"]

Tokens == {NoToken, GarbageToken, ForgedToken} \cup IssuedTokens

CyEmail == <<"c", "@", "x", ".", "y">>

RegisterBodies ==
    {[name |-> "Cy", email |-> e, password |-> p] :
        e \in {AliceEmail, <<"A", "@", "x", ".", "y">>, CyEmail,
               <<"C", "@", "x", ".", "y">>, <<"d", "@", "x", ".", "y">>},
        p \in {"secret1", "secret2"}}
    \cup {[name |-> "", email |-> CyEmail, password |-> "secret1"],
          [name |-> "Cy", email |-> <<"c", "x", ".", "y">>, password |-> "secret1"],
          [name |-> "Cy", email |-> CyEmail, password |-> "short"],
          [email |-> CyEmail, password |-> "secret1"]}

RegisterBodiesCore ==
    {[name |-> "Cy", email |-> e, password |-> "secret1"] :
        e \in {<<"A", "@", "x", ".", "y">>, CyEmail}}
    \cup {[name |-> "Cy", email |-> CyEmail, password |-> "secret1", isAdmin |-> TRUE]}

LoginBodies ==
    {[email |-> e, password |-> p] :
        e \in {AliceEmail, <<"A", "@", "x", ".", "y">>, AdminEmail, CyEmail,
               <<"z", "@", "x", ".", "y">>},
        p \in {"alicepw", "adminpw", "secret1", "wrong"}}
    \cup {[email |-> <<"a", "x">>, password |-> "alicepw"], [email |-> AliceEmail]}

LoginBodiesCore ==
    {[email |-> AdminEmail, password |-> p] : p \in {"adminpw", "wrong"}}

VehicleBase ==
    [make |-> "Honda", model |-> "Dio", year |-> 2022, licensePlate |-> <<"e">>]

Plates ==
    {<<"a", "b">>, <<"A", "B">>, <<"a", "B", " ">>, <<"c", "d">>, <<"e">>, <<" ", "e">>,
     <<" ">>, <<>>}

VehicleBodies ==
    {[VehicleBase EXCEPT !.licensePlate = p] : p \in Plates}
    \cup {[VehicleBase EXCEPT !.make = ""], [VehicleBase EXCEPT !.year = 1899],
          [VehicleBase EXCEPT !.year = 2090],
          [make |-> "Honda", model |-> "Dio", year |-> 2022]}

VehicleBodiesCore == {VehicleBase, [VehicleBase EXCEPT !.licensePlate = <<"a", "b">>]}

VehicleIdParams == {BadId} \cup 101..(102 + MaxVehicleSeq)

VehicleIdParamsCore == {101, 103}

BookBase == [vehicleId |-> 101, date |-> 3, type |-> "Oil Change"]

BookBodies ==
    {[BookBase EXCEPT !.vehicleId = v] : v \in {BadId, 101, 102, 103}}
    \cup {[BookBase EXCEPT !.date = NotADate], [BookBase EXCEPT !.type = ""],
          [BookBase EXCEPT !.type = "Pending"],
          [vehicleId |-> 102, date |-> 3, type |-> "Oil Change", description |-> "noise",
           cost |-> 4, totalBill |-> 6],
          [vehicleId |-> 101, date |-> 3, type |-> "Oil Change", cost |-> -1],
          [date |-> 3, type |-> "Oil Change"]}

BookBodiesCore == {BookBase, [BookBase EXCEPT !.vehicleId = 102]}

ServiceIdParams == {BadId, 299} \cup 201..(202 + MaxServiceSeq)

ServiceIdParamsCore == {201, 299}

Queries == {"true", "false", "undefined"}

StatusBodies ==
    {[status |-> st] : st \in {"", "Shipped", "Completed", "Picked Up"}} \cup {<<>>}

StatusBodiesCore == {[status |-> "Completed"]}

UpdateBase ==
    [date |-> 3, type |-> "Completed", customerName |-> "Zed", customerPhone |-> "999"]

UpdateBodies ==
    {UpdateBase,
     [date |-> 3, type |-> "Completed", customerName |-> "Zed", customerPhone |-> "999",
      description |-> "", cost |-> 8, totalBill |-> 9, partsUsed |-> <<>>],
     [date |-> 3, type |-> "Completed", customerName |-> "Zed"],
     [UpdateBase EXCEPT !.date = NotADate]}

(* Further bodies: a type outside the enum with an empty description and *)
(* no partsUsed, and an empty customerName.                              *)
UpdateBodiesAll ==
    UpdateBodies
    \cup {[date |-> 4, type |-> "Shipped", customerName |-> "Zed", customerPhone |-> "999",
           description |-> "", cost |-> 8],
          [UpdateBase EXCEPT !.customerName = ""]}

UpdateBodiesCore == {UpdateBase}

(***************************************************************************)
(* The requests.  last is the request just answered and its response.  A   *)
(* request the access gate turns away never reaches the route's handler:   *)
(* only its token was read.  The parameters bodies, ids and queries are    *)
(* the requests a specification lets clients choose among.                 *)
(***************************************************************************)
Rejected(op, token, res) ==
    /\ last' = [req |-> [op |-> op, token |-> token], res |-> res]
    /\ UNCHANGED <<users, vehicles, services, vehicleSeq, serviceSeq, now, registering>>

Register(body, salt) ==
    LET out == RegisterHandler(body, salt)
    IN /\ Cardinality(out.users) <= MaxUsers
       /\ users' = out.users
       /\ last' = [req |-> [op |-> "register", body |-> body], res |-> out.res]
       /\ UNCHANGED <<vehicles, services, vehicleSeq, serviceSeq, now, registering>>

(* A register request runs up to its existence check; other requests may *)
(* be answered before it goes on.  n numbers the requests in flight.     *)
RegisterCheck(n, body, salt) ==
    LET out == RegisterCheckHandler(body)
    IN /\ \A r \in registering : r.n # n
       /\ IF out.done
          THEN /\ last' = [req |-> [op |-> "register", body |-> body], res |-> out.res]
               /\ UNCHANGED registering
          ELSE /\ registering' = registering \cup {[n |-> n, body |-> body, salt |-> salt]}
               /\ last' = NoRequest
       /\ UNCHANGED <<users, vehicles, services, vehicleSeq, serviceSeq, now>>

(* A register request in flight goes on from its existence check to the *)
(* write and the response.                                              *)
RegisterSave(r) ==
    LET out == RegisterSaveHandler(r.body, r.salt)
    IN /\ r \in registering
       /\ Cardinality(out.users) <= MaxUsers
       /\ users' = out.users
       /\ registering' = registering \ {r}
       /\ last' = [req |-> [op |-> "register", body |-> r.body], res |-> out.res]
       /\ UNCHANGED <<vehicles, services, vehicleSeq, serviceSeq, now>>

Login(body) ==
    /\ last' = [req |-> [op |-> "login", body |-> body], res |-> LoginHandler(body)]
    /\ UNCHANGED <<users, vehicles, services, vehicleSeq, serviceSeq, now, registering>>

(* Time passes. *)
Tick ==
    /\ now < MaxTime
    /\ now' = now + 1
    /\ last' = NoRequest
    /\ UNCHANGED <<users, vehicles, services, vehicleSeq, serviceSeq, registering>>

CreateVehicle(token, bodies) ==
    LET a == auth(token)
    IN IF ~a.next
       THEN Rejected("createVehicle", token, a.res)
       ELSE \E body \in bodies :
               LET out == CreateVehicleHandler(a.user, body)
                   req == [op |-> "createVehicle", token |-> token, body |-> body]
               IN /\ vehicles' = out.vehicles
                  /\ vehicleSeq' = IF out.vehicles = vehicles THEN vehicleSeq
                                   ELSE vehicleSeq + 1
                  /\ vehicleSeq' <= MaxVehicleSeq
                  /\ last' = [req |-> req, res |-> out.res]
                  /\ UNCHANGED <<users, services, serviceSeq, now, registering>>

ListVehicles(token) ==
    LET a == auth(token)
    IN IF ~a.next
       THEN Rejected("listVehicles", token, a.res)
       ELSE /\ \E list \in ListVehiclesResults(a.user) :
                  last' = [req |-> [op |-> "listVehicles", token |-> token],
                           res |-> [status |-> 200, list |-> list]]
            /\ UNCHANGED <<users, vehicles, services, vehicleSeq, serviceSeq, now, registering>>

DeleteVehicle(token, ids) ==
    LET a == auth(token)
    IN IF ~a.next
       THEN Rejected("deleteVehicle", token, a.res)
       ELSE \E id \in ids :
               LET out == DeleteVehicleHandler(a.user, id)
                   req == [op |-> "deleteVehicle", token |-> token, id |-> id]
               IN /\ vehicles' = out.vehicles
                  /\ last' = [req |-> req, res |-> out.res]
                  /\ UNCHANGED <<users, services, vehicleSeq, serviceSeq, now, registering>>

Book(token, bodies) ==
    LET a == auth(token)
    IN IF ~a.next
       THEN Rejected("book", token, a.res)
       ELSE \E body \in bodies :
               LET out == BookHandler(a.user, body, NextServiceId)
                   req == [op |-> "book", token |-> token, body |-> body]
               IN /\ services' = out.services
                  /\ serviceSeq' = IF out.services = services THEN serviceSeq
                                   ELSE serviceSeq + 1
                  /\ serviceSeq' <= MaxServiceSeq
                  /\ last' = [req |-> req, res |-> out.res]
                  /\ UNCHANGED <<users, vehicles, vehicleSeq, now, registering>>

ListServices(token, queries) ==
    LET a == auth(token)
    IN IF ~a.next
       THEN Rejected("listServices", token, a.res)
       ELSE /\ \E query \in queries : \E list \in ListServicesResults(a.user, query) :
                  last' = [req |-> [op |-> "listServices", token |-> token,
                                    query |-> query],
                           res |-> [status |-> 200, list |-> list]]
            /\ UNCHANGED <<users, vehicles, services, vehicleSeq, serviceSeq, now, registering>>

UpdateStatus(token, ids, bodies) ==
    LET a == authThenAdmin(token)
    IN IF ~a.next
       THEN Rejected("updateStatus", token, a.res)
       ELSE \E id \in ids, body \in bodies :
               LET out == UpdateStatusHandler(id, body)
                   req == [op |-> "updateStatus", token |-> token, id |-> id,
                           body |-> body]
               IN /\ services' = out.services
                  /\ last' = [req |-> req, res |-> out.res]
                  /\ UNCHANGED <<users, vehicles, vehicleSeq, serviceSeq, now, registering>>

UpdateDetails(token, ids, bodies) ==
    LET a == authThenAdmin(token)
    IN IF ~a.next
       THEN Rejected("updateDetails", token, a.res)
       ELSE \E id \in ids, body \in bodies :
               LET out == UpdateDetailsHandler(id, body)
                   req == [op |-> "updateDetails", token |-> token, id |-> id,
                           body |-> body]
               IN /\ services' = out.services
                  /\ last' = [req |-> req, res |-> out.res]
                  /\ UNCHANGED <<users, vehicles, vehicleSeq, serviceSeq, now, registering>>

DeleteService(token, ids) ==
    LET a == authThenAdmin(token)
    IN IF ~a.next
       THEN Rejected("deleteService", token, a.res)
       ELSE \E id \in ids :
               LET out == DeleteServiceHandler(id)
                   req == [op |-> "deleteService", token |-> token, id |-> id]
               IN /\ services' = out.services
                  /\ last' = [req |-> req, res |-> out.res]
                  /\ UNCHANGED <<users, vehicles, vehicleSeq, serviceSeq, now, registering>>

(***************************************************************************)
(* The whole server: every route, each with a few representative requests  *)
(* from the administrator, from Alice and from clients without a valid     *)
(* token.                                                                  *)
(***************************************************************************)
TokensCore ==
    {NoToken, GarbageToken, ForgedToken} \cup {t \in IssuedTokens : t.user.id \in {1, 2}}

Next ==
    \/ \E body \in RegisterBodiesCore : Register(body, "s1")
    \/ \E body \in LoginBodiesCore : Login(body)
    \/ Tick
    \/ \E token \in TokensCore : CreateVehicle(token, VehicleBodiesCore)
    \/ \E token \in TokensCore : ListVehicles(token)
    \/ \E token \in TokensCore : DeleteVehicle(token, VehicleIdParamsCore)
    \/ \E token \in TokensCore : Book(token, BookBodiesCore)
    \/ \E token \in TokensCore : ListServices(token, {"false"})
    \/ \E token \in TokensCore : UpdateStatus(token, ServiceIdParamsCore, StatusBodiesCore)
    \/ \E token \in TokensCore : UpdateDetails(token, ServiceIdParamsCore, UpdateBodiesCore)
    \/ \E token \in TokensCore : DeleteService(token, ServiceIdParamsCore)

Spec == Init /\ [][Next]_vars

(***************************************************************************)
(* The account routes alone, with the full range of bodies.                *)
(***************************************************************************)
NextAuth ==
    \/ \E body \in RegisterBodies, salt \in Salts : Register(body, salt)
    \/ \E body \in LoginBodies : Login(body)
    \/ Tick

SpecAuth == Init /\ [][NextAuth]_vars

(***************************************************************************)
(* The vehicle routes alone.                                               *)
(***************************************************************************)
NextVehicles ==
    \/ \E token \in Tokens : CreateVehicle(token, VehicleBodies)
    \/ \E token \in Tokens : ListVehicles(token)
    \/ \E token \in Tokens : DeleteVehicle(token, VehicleIdParams)

SpecVehicles == Init /\ [][NextVehicles]_vars

(***************************************************************************)
(* The service routes alone.                                               *)
(***************************************************************************)
NextServices ==
    \/ \E token \in Tokens : Book(token, BookBodies)
    \/ \E token \in Tokens : ListServices(token, Queries)
    \/ \E token \in Tokens : UpdateStatus(token, ServiceIdParams, StatusBodies)
    \/ \E token \in Tokens : UpdateDetails(token, ServiceIdParams, UpdateBodies)
    \/ \E token \in Tokens : DeleteService(token, ServiceIdParams)

SpecServices == Init /\ [][NextServices]_vars

(***************************************************************************)
(* Tokens over time: register, login and the clock, with a user route and  *)
(* an admin route called with any token a client may hold.                 *)
(***************************************************************************)
NextTokens ==
    \/ \E body \in RegisterBodiesCore : Register(body, "s1")
    \/ \E body \in LoginBodiesCore : Login(body)
    \/ Tick
    \/ \E token \in Tokens : ListVehicles(token)
    \/ \E token \in Tokens : CreateVehicle(token, VehicleBodiesCore)
    \/ \E token \in Tokens : UpdateStatus(token, ServiceIdParamsCore, StatusBodiesCore)

SpecTokens == Init /\ [][NextTokens]_vars

(***************************************************************************)
(* Register requests served concurrently: each await of the handler is a   *)
(* point where another request may run.                                    *)
(***************************************************************************)
RaceBodies ==
    {[name |-> "Cy", email |-> e, password |-> p] :
        e \in {AliceEmail, CyEmail, <<"C", "@", "x", ".", "y">>},
        p \in {"secret1", "short"}}

NextRace ==
    \/ \E n \in 1..MaxInFlight, body \in RaceBodies, salt \in Salts :
           RegisterCheck(n, body, salt)
    \/ \E r \in registering : RegisterSave(r)
    \/ \E body \in LoginBodiesCore : Login(body)

SpecRace == Init /\ [][NextRace]_vars

(***************************************************************************)
(* The routes that write service records: book, the status update and the  *)
(* details update.                                                         *)
(***************************************************************************)
NextUpdates ==
    \/ \E token \in Tokens : Book(token, BookBodies)
    \/ \E token \in Tokens : UpdateStatus(token, ServiceIdParams, StatusBodies)
    \/ \E token \in Tokens : UpdateDetails(token, ServiceIdParams, UpdateBodiesAll)

SpecUpdates == Init /\ [][NextUpdates]_vars

(***************************************************************************)
(* Claims.  In an action formula, last' is the request the step answered   *)
(* and the unprimed collections are the database it was answered on.       *)
(***************************************************************************)
ProtectedOps ==
    {"createVehicle", "listVehicles", "deleteVehicle", "book", "listServices",
     "updateStatus", "updateDetails", "deleteService"}

AdminOps == {"updateStatus", "updateDetails", "deleteService"}

(* The token was issued by this server to a stored user and has not  *)
(* expired at the current time.                                      *)
IssuedAndFresh(token) == token \in IssuedTokens /\ now < token.exp

(* The step answered a request of route op that reached the route's handler. *)
Handled(op) == last'.req.op = op /\ last'.res.status \notin {401, 403}

(* C1: a book request by an authenticated caller for a vehicle the caller  *)
(* owns, with a valid ISO date and a non-empty type, is answered 200 and   *)
(* adds exactly one record: owner the caller, vehicleId the requested      *)
(* vehicle, customerName the caller's stored name, and cost, totalBill,    *)
(* partsUsed 0, 0, empty when left out.                                    *)
C1_BookCreatesRecord ==
    [][(/\ Handled("book")
        /\ BookErrors(last'.req.body) = {}
        /\ isObjectId(last'.req.body.vehicleId)
        /\ VehicleFindOneOwned(last'.req.body.vehicleId, last'.req.token.user.id) # {})
       => /\ last'.res.status = 200
          /\ \E x \in services' \ services :
                /\ services' = services \cup {x}
                /\ x.userId = last'.req.token.user.id
                /\ x.vehicleId = last'.req.body.vehicleId
                /\ \E u \in users : u.id = x.userId /\ x.customerName = u.name
                /\ ~Has(last'.req.body, "cost") => x.cost = 0
                /\ ~Has(last'.req.body, "totalBill") => x.totalBill = 0
                /\ ~Has(last'.req.body, "partsUsed") => x.partsUsed = <<>>]_vars

(* C2: a register whose email equals, ignoring letter case, the email of a *)
(* stored user is answered 400 (with "User already exists" when the body   *)
(* passes validation) and stores nothing; no two stored users have the     *)
(* same lowercase-normalized email.                                        *)
C2_EmailUnique ==
    /\ [](\A u1, u2 \in users :
            toLowerCase(u1.email) = toLowerCase(u2.email) => u1 = u2)
    /\ [][(/\ last'.req.op = "register"
           /\ Has(last'.req.body, "email")
           /\ \E u \in users : SameIgnoringCase(u.email, last'.req.body.email))
          => /\ last'.res.status = 400
             /\ RegisterErrors(last'.req.body) = {}
                    => last'.res = Json(400, "User already exists")
             /\ users' = users]_vars

(* C2 witness: a register was refused for an email that differs from the *)
(* stored one in letter case only.                                       *)
C2_Witness ==
    /\ last.req.op = "register"
    /\ last.res = Json(400, "User already exists")
    /\ \E u \in users :
          u.email # last.req.body.email /\ SameIgnoringCase(u.email, last.req.body.email)

(* C3: an admin-only request with a valid token whose isAdmin is false is  *)
(* answered 403 and changes no service record; a step that modifies or     *)
(* removes an existing service record answers an admin-only request        *)
(* carrying a valid token whose isAdmin is true.                           *)
C3_AdminOnly ==
    /\ [][(/\ last'.req.op \in AdminOps
           /\ IssuedAndFresh(last'.req.token)
           /\ ~last'.req.token.user.isAdmin)
          => (last'.res.status = 403 /\ services' = services)]_vars
    /\ [][(\E x \in services : x \notin services')
          => /\ last'.req.op \in AdminOps
             /\ IssuedAndFresh(last'.req.token)
             /\ last'.req.token.user.isAdmin]_vars

(* C3 witness: Alice's valid token was refused on an admin-only route. *)
C3_Witness ==
    /\ last.req.op \in AdminOps
    /\ last.res.status = 403
    /\ IssuedAndFresh(last.req.token)
    /\ ~last.req.token.user.isAdmin

(* C4: a request to a protected route with no token, or with a token that  *)
(* is malformed, signed with another key or expired (anything but a token  *)
(* this server issued that has not expired), is answered 401, is not       *)
(* handed to the route's handler (nothing but its token is read) and       *)
(* leaves users, vehicles and services unchanged; a 403 of the admin check *)
(* is only ever given to a request whose token verified.                   *)
C4_Unauthenticated ==
    /\ [][(/\ last'.req.op \in ProtectedOps
           /\ ~IssuedAndFresh(last'.req.token))
          => /\ last'.res.status = 401
             /\ DOMAIN last'.req = {"op", "token"}
             /\ UNCHANGED <<users, vehicles, services>>]_vars
    /\ [](last.res.status = 403 => IssuedAndFresh(last.req.token))

(* C4 witness: an issued token was refused after its expiry. *)
C4_Witness ==
    /\ last.req.op \in ProtectedOps
    /\ last.res.status = 401
    /\ last.req.token \in IssuedTokens
    /\ now >= last.req.token.exp

(* The ids of the records of a listing. *)
ListedIds(list) == {list[i].id : i \in DOMAIN list}

(* C5: GET /api/services returns, each once, exactly the records owned by  *)
(* the caller when the caller is no admin (whatever includePickedUp and    *)
(* their status), and for an admin all records, less those "Picked Up"     *)
(* unless includePickedUp=true; a non-admin never receives a record of     *)
(* another user.                                                           *)
C5_ListScope ==
    (last.req.op = "listServices" /\ last.res.status = 200)
    => LET caller == last.req.token.user
           list == last.res.list
           expected ==
               IF caller.isAdmin
               THEN {x \in services : last.req.query = "true" \/ x.type # "Picked Up"}
               ELSE {x \in services : x.userId = caller.id}
       IN /\ ListedIds(list) = {x.id : x \in expected}
          /\ Len(list) = Cardinality(expected)
          /\ \A i \in DOMAIN list :
                \E x \in expected :
                    /\ x.id = list[i].id /\ x.userId = list[i].userId
                    /\ x.type = list[i].type
          /\ ~caller.isAdmin => \A i \in DOMAIN list : list[i].userId = caller.id

(* C5 witness: an admin listed without includePickedUp while a record   *)
(* "Picked Up" and another record were stored.                          *)
C5_Witness ==
    /\ last.req.op = "listServices" /\ last.res.status = 200
    /\ last.req.token.user.isAdmin /\ last.req.query = "false"
    /\ \E x \in services : x.type = "Picked Up"
    /\ last.res.list # <<>>

(* C6: DELETE /api/vehicles/:id by a caller who does not own the stored    *)
(* vehicle is answered 404, with the response the same request gets when   *)
(* no vehicle has that id, and the vehicle stays stored; a vehicle leaves  *)
(* the collection only in a delete request of its owner.                   *)
C6_DeleteVehicle ==
    /\ [][(/\ Handled("deleteVehicle")
           /\ \E v \in vehicles :
                 v.id = last'.req.id /\ v.userId # last'.req.token.user.id)
          => /\ last'.res.status = 404
             /\ last'.res = DeleteVehicleOn({v \in vehicles : v.id # last'.req.id},
                                            last'.req.token.user, last'.req.id).res
             /\ vehicles' = vehicles]_vars
    /\ [][\A v \in vehicles \ vehicles' :
             /\ Handled("deleteVehicle")
             /\ last'.req.id = v.id
             /\ last'.req.token.user.id = v.userId
             /\ vehicles' = vehicles \ {v}]_vars

(* C6 witness: a delete of another user's stored vehicle was answered 404. *)
C6_Witness ==
    /\ last.req.op = "deleteVehicle" /\ last.res.status = 404
    /\ \E v \in vehicles : v.id = last.req.id /\ v.userId # last.req.token.user.id

(* C7: a book request (one that passes the route's validators and names a  *)
(* well-formed id) for a vehicle that is not stored or is owned by another *)
(* user is answered 404 and creates no record; every record a book request *)
(* creates references a vehicle owned by the record's owner.               *)
C7_BookForeignVehicle ==
    /\ [][(/\ Handled("book")
           /\ BookErrors(last'.req.body) = {}
           /\ isObjectId(last'.req.body.vehicleId)
           /\ \A v \in vehicles :
                 v.id = last'.req.body.vehicleId => v.userId # last'.req.token.user.id)
          => /\ last'.res = Json(404, "Vehicle not found or does not belong to user")
             /\ services' = services]_vars
    /\ [][last'.req.op = "book"
          => \A x \in services' \ services :
                \E v \in vehicles : v.id = x.vehicleId /\ v.userId = x.userId]_vars

(* C7 witness: Alice's booking of Bob's stored vehicle was answered 404. *)
C7_Witness ==
    /\ last.req.op = "book" /\ last.res.status = 404
    /\ \E v \in vehicles :
          v.id = last.req.body.vehicleId /\ v.userId # last.req.token.user.id

(* C8, as claimed: a create whose plate equals, ignoring case, the plate   *)
(* of a vehicle the caller owns is answered 400 and stores nothing; the    *)
(* plate stored is the uppercase form of the plate submitted.              *)
C8_AsClaimed ==
    [][(Handled("createVehicle") /\ Has(last'.req.body, "licensePlate"))
       => /\ (\E v \in vehicles :
                 /\ v.userId = last'.req.token.user.id
                 /\ SameIgnoringCase(v.licensePlate, last'.req.body.licensePlate))
             => (last'.res.status = 400 /\ vehicles' = vehicles)
          /\ \A v \in vehicles' \ vehicles :
                v.licensePlate = toUpperCase(last'.req.body.licensePlate)]_vars

(* C8, amended: a create whose plate equals, ignoring case, the plate of a *)
(* vehicle the caller owns is answered 400 (with the duplicate message     *)
(* when the body passes validation) and stores nothing; the plate stored   *)
(* is the uppercase form of the plate submitted with its leading and       *)
(* trailing whitespace removed.                                            *)
C8_PlateNormalized ==
    [][(Handled("createVehicle") /\ Has(last'.req.body, "licensePlate"))
       => /\ (\E v \in vehicles :
                 /\ v.userId = last'.req.token.user.id
                 /\ SameIgnoringCase(v.licensePlate, last'.req.body.licensePlate))
             => /\ last'.res.status = 400
                /\ VehicleErrors(last'.req.body) = {}
                       => last'.res =
                              Json(400, "Vehicle with this license plate already added.")
                /\ vehicles' = vehicles
          /\ \A v \in vehicles' \ vehicles :
                v.licensePlate = trim(toUpperCase(last'.req.body.licensePlate))]_vars

(* C8 witness: a create was refused for a plate that differs in letter   *)
(* case from the plate of a vehicle the caller owns.                     *)
C8_Witness ==
    /\ last.req.op = "createVehicle"
    /\ last.res = Json(400, "Vehicle with this license plate already added.")
    /\ \E v \in vehicles :
          /\ v.userId = last.req.token.user.id
          /\ v.licensePlate # last.req.body.licensePlate
          /\ SameIgnoringCase(v.licensePlate, last.req.body.licensePlate)

(* C9: a create (passing validation) whose normalized plate is the plate   *)
(* of a stored vehicle, whoever owns it, is answered 400 and stores        *)
(* nothing.                                                                *)
C9_PlateConflictAnyOwner ==
    [][(/\ Handled("createVehicle")
        /\ VehicleErrors(last'.req.body) = {}
        /\ \E v \in vehicles :
              v.licensePlate = CastPlate(toUpperCase(last'.req.body.licensePlate)))
       => (last'.res.status = 400 /\ vehicles' = vehicles)]_vars

(* The step answered an admin's PATCH of the status that passed the     *)
(* route's validator.                                                   *)
StatusPatched ==
    /\ Handled("updateStatus")
    /\ Has(last'.req.body, "status") /\ last'.req.body.status # ""

UpdatableFields ==
    {"date", "type", "description", "cost", "totalBill", "partsUsed",
     "customerName", "customerPhone"}

RequiredOnUpdate == {"date", "type", "customerName", "customerPhone"}

(* Every field the body carries has a value of its kind: an ISO date, a *)
(* non-empty type, name and phone, a cost and bill that are not         *)
(* negative.                                                            *)
PresentValid(body) ==
    /\ Has(body, "date") => isISO8601(body.date)
    /\ \A f \in {"type", "customerName", "customerPhone"} : Has(body, f) => body[f] # ""
    /\ \A f \in {"cost", "totalBill"} : Has(body, f) => body[f] >= 0

(* The record x with exactly the fields the body carries replaced. *)
UpdatedByPresence(x, body) ==
    [f \in DOMAIN x |-> IF f \in UpdatableFields /\ Has(body, f) THEN body[f] ELSE x[f]]

RegisteredPassword(u) == u.password.digest[2]

(* C12: a login (well-formed email, password present) with the email of a  *)
(* registered user is answered 200, with a token carrying that user's id,  *)
(* name and isAdmin, exactly when the password is the one the user         *)
(* registered with; with a wrong password, and with an email no user has,  *)
(* the response is the same 400 "Invalid Credentials"; a login changes no  *)
(* stored state.                                                           *)
C12_LoginIffPassword ==
    [][last'.req.op = "login"
       => /\ UNCHANGED <<users, vehicles, services>>
          /\ (/\ Has(last'.req.body, "email") /\ isEmail(last'.req.body.email)
              /\ Has(last'.req.body, "password"))
             => LET registered ==
                        {u \in users : u.email = toLowerCase(last'.req.body.email)}
                IN IF \E u \in registered :
                          RegisteredPassword(u) = last'.req.body.password
                   THEN /\ last'.res.status = 200
                        /\ \E u \in registered :
                              last'.res.token.user =
                                  [id |-> u.id, name |-> u.name, isAdmin |-> u.isAdmin]
                        /\ last'.res.token \in IssuedTokens
                   ELSE last'.res = Json(400, "Invalid Credentials")
      ]_vars

(* C12 witness: a user registered in this run, with an email written in *)
(* capitals or not, has logged in.                                      *)
C12_Witness ==
    /\ last.req.op = "login" /\ last.res.status = 200
    /\ \E u \in users \ SeedUsers :
          /\ last.res.token.user.id = u.id
          /\ RegisteredPassword(u) = last.req.body.password

(* C13: on every request to a protected route, a token this server issued *)
(* (at a register or a login) is accepted until its expiry, one hour      *)
(* after its issue, and answered 401 from then on, whatever requests were *)
(* answered in between: while it has not expired the request passes the   *)
(* authentication step with the identity the token carries.               *)
C13_ValidUntilExpiry ==
    [][(last'.req.op \in ProtectedOps /\ last'.req.token \in IssuedTokens)
       => IF now < last'.req.token.iat + ExpiresIn
          THEN /\ last'.res.status # 401
               /\ last'.req.op \notin AdminOps
                      => (DOMAIN last'.req # {"op", "token"} \/ last'.res.status = 200)
               /\ last'.req.op \in AdminOps
                      => (last'.res.status = 403 <=> ~last'.req.token.user.isAdmin)
          ELSE last'.res = Json(401, "Token is not valid")
      ]_vars

(* C13 witness: the token of a user registered in this run was accepted *)
(* after the clock had moved, on a request made before its expiry.      *)
C13_Witness ==
    /\ last.req.op \in ProtectedOps /\ last.res.status = 200
    /\ last.req.token \in IssuedTokens
    /\ last.req.token.user.id \notin {u.id : u \in SeedUsers}
    /\ now > 0 /\ now < last.req.token.exp

(* C14: GET /api/vehicles returns exactly the vehicles the caller owns,   *)
(* each once, newest first: a vehicle created later (ids are given in     *)
(* creation order) stands before one created earlier.                     *)
C14_NewestFirst ==
    (last.req.op = "listVehicles" /\ last.res.status = 200)
    => LET list == last.res.list
       IN /\ {list[i] : i \in DOMAIN list}
                 = {v \in vehicles : v.userId = last.req.token.user.id}
          /\ \A i, j \in DOMAIN list : i < j => list[i].id > list[j].id

(* C15: the record a book request creates has status "Pending": for a book *)
(* request that passes the validators and names a vehicle of the caller,   *)
(* the record the handler builds (new Service) and every record the step   *)
(* stores has type "Pending".                                              *)
C15_PendingAfterBook ==
    [][(/\ Handled("book")
        /\ BookErrors(last'.req.body) = {}
        /\ \E v \in vehicles :
              v.id = last'.req.body.vehicleId /\ v.userId = last'.req.token.user.id)
       => /\ \A x \in services' \ services : x.type = "Pending"
          /\ \A u \in UserFindById(last'.req.token.user.id) :
                NewService(NextServiceId, last'.req.token.user, last'.req.body, u).type
                    = "Pending"]_vars

(* C16: every stored service record satisfies the constraints of the data *)
(* model: its type is one of the twelve values of the enum, its cost and  *)
(* totalBill are not negative, every part has a quantity of at least 1    *)
(* and a unitCost that is not negative, and its customerName and          *)
(* customerPhone are not empty.                                           *)
C16_ServiceConstraints ==
    \A x \in services :
        /\ x.type \in TypeEnum
        /\ x.cost >= 0 /\ x.totalBill >= 0
        /\ \A i \in DOMAIN x.partsUsed :
              x.partsUsed[i].quantity >= 1 /\ x.partsUsed[i].unitCost >= 0
        /\ x.customerName # "" /\ x.customerPhone # ""

(* C17: when a register request passed its existence check and a user with *)
(* the same normalized email was stored before its write, the write stores *)
(* nothing and the request is answered 400; no two stored users have the   *)
(* same normalized email.                                                  *)
C17_RaceLoserConflict ==
    /\ [](\A u1, u2 \in users :
             toLowerCase(trim(u1.email)) = toLowerCase(trim(u2.email)) => u1.id = u2.id)
    /\ [][\A r \in registering \ registering' :
             (\E u \in users : u.email = toLowerCase(trim(r.body.email)))
             => /\ users' = users
                /\ last'.req.op = "register" /\ last'.req.body = r.body
                /\ last'.res.status = 400]_vars

(* C18: no request changes or removes a stored user; users are added only  *)
(* by a register answered 200, the user added has isAdmin false and the    *)
(* token returned carries its id, its name and isAdmin false; the          *)
(* administrators are those of the initial state.                          *)
C18_AdminsFixed ==
    /\ []({u \in users : u.isAdmin} = {u \in SeedUsers : u.isAdmin})
    /\ [][/\ users \subseteq users'
          /\ users' # users
             => /\ last'.req.op = "register" /\ last'.res.status = 200
                /\ \E u \in users' :
                      /\ users' = users \cup {u}
                      /\ ~u.isAdmin
                      /\ last'.res.token.user =
                             [id |-> u.id, name |-> u.name, isAdmin |-> FALSE]]_vars

(* C18 witness: a register that sent isAdmin: true was answered 200 and *)
(* the user it stored is no administrator.                              *)
C18_Witness ==
    /\ last.req.op = "register" /\ last.res.status = 200
    /\ Has(last.req.body, "isAdmin") /\ last.req.body.isAdmin
    /\ \E u \in users : u.id = last.res.token.user.id /\ ~u.isAdmin

====
